---- MODULE Spec2Model ----
(***************************************************************************)
(* Model of the Avro C++ binary decoder (BinaryDecoder) and of the JSON    *)
(* schema compiler (makeNode and friends).                                 *)
(*                                                                         *)
(* 64-bit machine words are bit vectors [0..63 -> {0,1}], bit 0 being the  *)
(* least significant; int64_t is the two's complement reading of a word,   *)
(* size_t the unsigned reading.  A cast between the two keeps the bits.    *)
(***************************************************************************)
EXTENDS Integers, Sequences, FiniteSets, TLC

----------------------------------------------------------------------------
(* Machine words *)

WordBits == 64

BitIdx == 0 .. (WordBits - 1)

Pow2(k) == 2 ^ k

Xor(a, b) == IF a = b THEN 0 ELSE 1

Zero64 == [i \in BitIdx |-> 0]

\* bit i of the small natural number u
BitOf(u, i) == IF i > 30 THEN 0 ELSE (u \div Pow2(i)) % 2

\* static_cast<uint64_t>(u) for a small natural number u
NatToWord(u) == [i \in BitIdx |-> BitOf(u, i)]

\* the word has a value below 2^31 (it fits a natural number of the model)
FitsNat(w) == \A i \in 31 .. (WordBits - 1) : w[i] = 0

RECURSIVE SumBits(_, _)
SumBits(w, i) == IF i > 30 THEN 0 ELSE w[i] * Pow2(i) + SumBits(w, i + 1)

\* the value of a word below 2^31
ToNat(w) == SumBits(w, 0)

\* a | b
OrWord(a, b) == [i \in BitIdx |-> IF a[i] = 1 \/ b[i] = 1 THEN 1 ELSE 0]

\* static_cast<uint64_t>(u) << shift, the bits shifted past bit 63 are lost
ShiftLeft(u, shift) ==
    [i \in BitIdx |-> IF i >= shift THEN BitOf(u, i - shift) ELSE 0]

\* unsigned a < b
ULess(a, b) ==
    \E i \in BitIdx :
        /\ a[i] = 0
        /\ b[i] = 1
        /\ \A j \in (i + 1) .. (WordBits - 1) : a[j] = b[j]

\* int64_t: the sign bit
IsNegative(w) == w[WordBits - 1] = 1

\* signed a < b
SLess(a, b) ==
    IF IsNegative(a) # IsNegative(b) THEN IsNegative(a) ELSE ULess(a, b)

\* -w in two's complement (the bits above the lowest set bit are flipped)
NegWord(w) ==
    IF w = Zero64 THEN Zero64
    ELSE LET low == CHOOSE i \in BitIdx :
                        w[i] = 1 /\ \A j \in 0 .. (i - 1) : w[j] = 0
         IN  [i \in BitIdx |-> IF i <= low THEN w[i] ELSE 1 - w[i]]

\* the borrow into bit i of a - b
RECURSIVE Borrow(_, _, _)
Borrow(a, b, i) ==
    IF i = 0 THEN 0
    ELSE IF a[i - 1] - b[i - 1] - Borrow(a, b, i - 1) < 0 THEN 1 ELSE 0

\* a - b modulo 2^64
SubWord(a, b) ==
    [i \in BitIdx |-> (a[i] - b[i] - Borrow(a, b, i) + 2) % 2]

\* 2^k, 2^k - 1, -(2^k) and -(2^k) - 1 as int64_t
PowWord(k) == [i \in BitIdx |-> IF i = k THEN 1 ELSE 0]

PowMinusOneWord(k) == [i \in BitIdx |-> IF i < k THEN 1 ELSE 0]

NegPowWord(k) == [i \in BitIdx |-> IF i >= k THEN 1 ELSE 0]

NegPowMinusOneWord(k) == [i \in BitIdx |-> IF i = k THEN 0 ELSE 1]

INT32_MIN == NegPowWord(31)

INT32_MAX == PowMinusOneWord(31)

----------------------------------------------------------------------------
(* StreamReader: the bytes of the input stream and the read position.      *)
(* The stream is the explicit bytes buf followed by pad further bytes, all *)
(* equal to 97 ('a'); pad is a word, so that a stream can hold more bytes  *)
(* than a sequence of the model can.  next is the index in buf of the next *)
(* byte to read.                                                           *)

Byte == 0 .. 255

One64 == NatToWord(1)

NoError == "none"

StreamError == "EOF reached"

MkStream(bytes, padding) == [buf |-> bytes, next |-> 1, pad |-> padding]

\* the number of unread bytes of buf
AvailBuf(in) == Len(in.buf) - in.next + 1

\* StreamReader::read(): one byte, or the stream's failure at its end
Read(in) ==
    IF in.next <= Len(in.buf)
    THEN [ok |-> TRUE, u |-> in.buf[in.next],
          in |-> [in EXCEPT !.next = @ + 1]]
    ELSE IF in.pad # Zero64
    THEN [ok |-> TRUE, u |-> 97,
          in |-> [in EXCEPT !.pad = SubWord(@, One64)]]
    ELSE [ok |-> FALSE, u |-> 0, in |-> in]

\* the stream holds at least n more bytes (n a size_t)
HasBytes(in, n) ==
    \/ FitsNat(n) /\ ToNat(n) <= AvailBuf(in)
    \/ /\ ~ULess(n, NatToWord(AvailBuf(in)))
       /\ ~ULess(in.pad, SubWord(n, NatToWord(AvailBuf(in))))

\* the stream after n bytes were consumed; HasBytes(in, n) holds
Advance(in, n) ==
    IF FitsNat(n) /\ ToNat(n) <= AvailBuf(in)
    THEN [in EXCEPT !.next = @ + ToNat(n)]
    ELSE [in EXCEPT !.next = Len(in.buf) + 1,
                    !.pad = SubWord(@, SubWord(n, NatToWord(AvailBuf(in))))]

\* the next n bytes of the stream: the explicit ones, and the number of
\* padding bytes after them
Taken(in, n) ==
    IF FitsNat(n) /\ ToNat(n) <= AvailBuf(in)
    THEN [data |-> SubSeq(in.buf, in.next, in.next + ToNat(n) - 1),
          padding |-> Zero64]
    ELSE [data |-> SubSeq(in.buf, in.next, Len(in.buf)),
          padding |-> SubWord(n, NatToWord(AvailBuf(in)))]

NoBytes == [data |-> << >>, padding |-> Zero64]

\* StreamReader::readBytes(b, n)
ReadBytes(in, n) ==
    IF HasBytes(in, n)
    THEN [ok |-> TRUE, bytes |-> Taken(in, n), in |-> Advance(in, n)]
    ELSE [ok |-> FALSE, bytes |-> NoBytes, in |-> in]

\* StreamReader::skipBytes(n)
SkipBytes(in, n) ==
    IF HasBytes(in, n)
    THEN [ok |-> TRUE, in |-> Advance(in, n)]
    ELSE [ok |-> FALSE, in |-> in]

----------------------------------------------------------------------------
(* ZigZag and the variable-length integers *)

\* decodeZigzag64: (n >>> 1) ^ -(n & 1)
decodeZigzag64(n) ==
    [i \in BitIdx |->
        Xor(IF i < WordBits - 1 THEN n[i + 1] ELSE 0, n[0])]

\* encodeZigzag64: (x << 1) ^ (x >> 63), the shift right being arithmetic
encodeZigzag64(x) ==
    [i \in BitIdx |->
        Xor(IF i > 0 THEN x[i - 1] ELSE 0, x[WordBits - 1])]

\* the seven bits of n from bit 7k on, as a number
Group7(n, k) ==
    LET b(j) == IF 7 * k + j < WordBits THEN n[7 * k + j] ELSE 0
    IN  b(0) + 2 * b(1) + 4 * b(2) + 8 * b(3) + 16 * b(4) + 32 * b(5)
          + 64 * b(6)

\* the number of 7-bit groups of n up to its highest set bit, at least one
GroupCount(n) ==
    IF n = Zero64 THEN 1
    ELSE LET high == CHOOSE i \in BitIdx :
                         n[i] = 1 /\ \A j \in (i + 1) .. (WordBits - 1) : n[j] = 0
         IN  (high \div 7) + 1

\* the varint of the unsigned n: 7 bits per byte, least significant group
\* first, the high bit set on every byte but the last
encodeVarint(n) ==
    [k \in 1 .. GroupCount(n) |->
        Group7(n, k - 1) + (IF k < GroupCount(n) THEN 128 ELSE 0)]

\* the encoding of the long x
encodeLong(x) == encodeVarint(encodeZigzag64(x))

\* the result of a decoder call: the exception thrown (NoError if it
\* returns), the number returned, the bytes handed to the caller, the
\* stream after the call, and the shift amounts the varint loop applied
Returned(v, in, sh) ==
    [exc |-> NoError, val |-> v, bytes |-> NoBytes, in |-> in, shifts |-> sh]

Thrown(e, in, sh) ==
    [exc |-> e, val |-> Zero64, bytes |-> NoBytes, in |-> in, shifts |-> sh]

InvalidVarint == "Invalid Avro varint"

OutOfRangeInt == "Value out of range for Avro int"

NegativeLength == "Cannot have negative length"

\* the loop with shift += 8
RECURSIVE doDecodeLongLoop_shift8(_, _, _, _)
doDecodeLongLoop_shift8(in, encoded, shift, sh) ==
    IF shift >= 64 THEN Thrown(InvalidVarint, in, sh)
    ELSE LET r == Read(in)
         IN  IF ~r.ok THEN Thrown(StreamError, in, sh)
             ELSE LET enc == OrWord(encoded, ShiftLeft(r.u % 128, shift))
                  IN  IF r.u >= 128
                      THEN doDecodeLongLoop_shift8(r.in, enc, shift + 8,
                                                   Append(sh, shift))
                      ELSE Returned(decodeZigzag64(enc), r.in,
                                    Append(sh, shift))

\* the loop with the test shift > 70: an eleventh byte is read
RECURSIVE doDecodeLongLoop_bound(_, _, _, _)
doDecodeLongLoop_bound(in, encoded, shift, sh) ==
    IF shift > 70 THEN Thrown(InvalidVarint, in, sh)
    ELSE LET r == Read(in)
         IN  IF ~r.ok THEN Thrown(StreamError, in, sh)
             ELSE LET enc == OrWord(encoded, ShiftLeft(r.u % 128, shift))
                  IN  IF r.u >= 128
                      THEN doDecodeLongLoop_bound(r.in, enc, shift + 7,
                                                  Append(sh, shift))
                      ELSE Returned(decodeZigzag64(enc), r.in,
                                    Append(sh, shift))

\* the do-while loop of doDecodeLong
RECURSIVE doDecodeLongLoop(_, _, _, _)
doDecodeLongLoop(in, encoded, shift, sh) ==
    IF shift >= 64 THEN Thrown(InvalidVarint, in, sh)
    ELSE LET r == Read(in)
         IN  IF ~r.ok THEN Thrown(StreamError, in, sh)
             ELSE LET enc == OrWord(encoded, ShiftLeft(r.u % 128, shift))
                  IN  IF r.u >= 128
                      THEN doDecodeLongLoop(r.in, enc, shift + 7,
                                            Append(sh, shift))
                      ELSE Returned(decodeZigzag64(enc), r.in,
                                    Append(sh, shift))

doDecodeLong(in) == doDecodeLongLoop(in, Zero64, 0, << >>)

decodeLong(in) == doDecodeLong(in)

decodeInt(in) ==
    LET r == doDecodeLong(in)
    IN  IF r.exc # NoError THEN r
        ELSE IF SLess(r.val, INT32_MIN) \/ SLess(INT32_MAX, r.val)
        THEN Thrown(OutOfRangeInt, r.in, r.shifts)
        ELSE r

doDecodeLength(in) ==
    LET r == decodeInt(in)
    IN  IF r.exc # NoError THEN r
        ELSE IF IsNegative(r.val) THEN Thrown(NegativeLength, r.in, r.shifts)
        ELSE r

\* value.resize(len); if (len > 0) in_.readBytes(..., len)
ReadValue(in, len, sh) ==
    IF len = Zero64 THEN Returned(len, in, sh)
    ELSE LET b == ReadBytes(in, len)
         IN  IF ~b.ok THEN Thrown(StreamError, in, sh)
             ELSE [Returned(len, b.in, sh) EXCEPT !.bytes = b.bytes]

\* in_.skipBytes(n)
SkipValue(in, n, sh) ==
    LET b == SkipBytes(in, n)
    IN  IF ~b.ok THEN Thrown(StreamError, in, sh) ELSE Returned(n, b.in, sh)

decodeString(in) ==
    LET l == doDecodeLength(in)
    IN  IF l.exc # NoError THEN l ELSE ReadValue(l.in, l.val, l.shifts)

skipString(in) ==
    LET l == doDecodeLength(in)
    IN  IF l.exc # NoError THEN l ELSE SkipValue(l.in, l.val, l.shifts)

decodeBytes(in) ==
    LET l == doDecodeLength(in)
    IN  IF l.exc # NoError THEN l ELSE ReadValue(l.in, l.val, l.shifts)

skipBytes(in) ==
    LET l == doDecodeLength(in)
    IN  IF l.exc # NoError THEN l ELSE SkipValue(l.in, l.val, l.shifts)

decodeFixed(n, in) == ReadValue(in, n, << >>)

skipFixed(n, in) == SkipValue(in, n, << >>)

\* static_cast<size_t>(doDecodeLong()): the bits are kept
decodeEnum(in) == doDecodeLong(in)

\* doDecodeItemCount without the read of the byte size
doDecodeItemCount_nosize(in) ==
    LET result == doDecodeLong(in)
    IN  IF result.exc # NoError THEN result
        ELSE IF IsNegative(result.val)
        THEN Returned(NegWord(result.val), result.in, result.shifts)
        ELSE result

doDecodeItemCount(in) ==
    LET result == doDecodeLong(in)
    IN  IF result.exc # NoError THEN result
        ELSE IF IsNegative(result.val)
        THEN LET size == doDecodeLong(result.in)
             IN  IF size.exc # NoError THEN size
                 ELSE Returned(NegWord(result.val), size.in, size.shifts)
        ELSE result

arrayStart(in) == doDecodeItemCount(in)

\* arrayNext through doDecodeItemCount, as mapNext
arrayNext_framed(in) == doDecodeItemCount(in)

arrayNext(in) == doDecodeLong(in)

\* skipArray without in_.skipBytes(n)
RECURSIVE skipArray_noskip(_)
skipArray_noskip(in) ==
    LET r == doDecodeLong(in)
    IN  IF r.exc # NoError THEN r
        ELSE IF IsNegative(r.val)
        THEN LET n == doDecodeLong(r.in)
             IN  IF n.exc # NoError THEN n ELSE skipArray_noskip(n.in)
        ELSE r

RECURSIVE skipArray(_)
skipArray(in) ==
    LET r == doDecodeLong(in)
    IN  IF r.exc # NoError THEN r
        ELSE IF IsNegative(r.val)
        THEN LET n == doDecodeLong(r.in)
             IN  IF n.exc # NoError THEN n
                 ELSE LET s == SkipBytes(n.in, n.val)
                      IN  IF ~s.ok THEN Thrown(StreamError, n.in, n.shifts)
                          ELSE skipArray(s.in)
        ELSE r

mapStart(in) == doDecodeItemCount(in)

mapNext(in) == doDecodeItemCount(in)

skipMap(in) == skipArray(in)

decodeUnionIndex(in) == doDecodeLong(in)

----------------------------------------------------------------------------
(* The streams handed to the decoder: what a writer following the binary   *)
(* encoding produces, and arbitrary bytes.                                 *)

\* the bounds of the model
MaxCont == 11

MaxStrLen == 2

MaxFixed == 2

MaxItems == 2

MaxBlocks == 2

SeqsUpTo(S, k) == UNION {[1 .. m -> S] : m \in 0 .. k}

RECURSIVE Concat(_)
Concat(ss) == IF ss = << >> THEN << >> ELSE Head(ss) \o Concat(Tail(ss))

\* the longs whose encodings are decoded: the powers of two and their
\* neighbours, of both signs, over the whole int64_t range
TestLongs ==
    UNION {{PowWord(k), PowMinusOneWord(k), NegPowWord(k),
            NegPowMinusOneWord(k)} : k \in BitIdx}

\* bytes that may follow the value in the stream
Trailers == {<< >>, <<128>>}

\* arbitrary bytes: continuation bytes, then bytes without the high bit
ContBytes == {128, 255}

RawTails == {<< >>, <<1>>, <<127, 128>>}

RawStreams == {c \o t : c \in SeqsUpTo(ContBytes, MaxCont), t \in RawTails}

\* string and bytes: the length as a long, then the bytes
encodeBytes(b) == encodeLong(NatToWord(Len(b))) \o b

StrBytes == {97, 128}

\* lengths beyond what a sequence of the model holds; the payload is padding
BigLengths == {INT32_MAX, PowWord(31), PowWord(40), PowMinusOneWord(63)}

NegativeLengths ==
    {NegPowWord(0), INT32_MIN, NegPowMinusOneWord(31), NegPowWord(63)}

\* array and map: blocks of items.  An item is a long (key empty) in an
\* array, a string key and a long in a map.  The items of a block take
\* turns: a long of one byte (with a key of one byte), then a long of two
\* bytes (with the empty key).
Items(sch, m) ==
    [k \in 1 .. m |->
        IF k % 2 = 0 THEN [key |-> << >>, val |-> PowWord(6)]
        ELSE IF sch = "map" THEN [key |-> <<97>>, val |-> One64]
        ELSE [key |-> << >>, val |-> One64]]

encodeItem(sch, it) ==
    IF sch = "map" THEN encodeBytes(it.key) \o encodeLong(it.val)
    ELSE encodeLong(it.val)

encodeItems(sch, its) ==
    Concat([k \in 1 .. Len(its) |-> encodeItem(sch, its[k])])

\* a block: the count, or the negated count and the size in bytes, then
\* the items
encodeBlock(sch, b) ==
    IF b.neg
    THEN encodeLong(NegWord(NatToWord(Len(b.items))))
           \o encodeLong(NatToWord(Len(encodeItems(sch, b.items))))
           \o encodeItems(sch, b.items)
    ELSE encodeLong(NatToWord(Len(b.items))) \o encodeItems(sch, b.items)

\* the blocks, then the count 0
encodeContainer(sch, bs) ==
    Concat([k \in 1 .. Len(bs) |-> encodeBlock(sch, bs[k])])
      \o encodeLong(Zero64)

Blocks(sch) ==
    {[items |-> Items(sch, m), neg |-> ng] :
        m \in 1 .. MaxItems, ng \in BOOLEAN}

Containers(sch) == SeqsUpTo(Blocks(sch), MaxBlocks)

\* what the caller reads (schema, mode, the size of a fixed), the stream,
\* and what the stream was written from: the long x, the payload of a
\* string, the blocks of a container; enc is the number of bytes of the
\* encoded value and endPad the padding left after it
MkInput(sch, md, knd, strm, xx, pl, bs, sz, n) ==
    [schema |-> sch, mode |-> md, kind |-> knd, stream |-> strm, x |-> xx,
     payload |-> pl, blocks |-> bs, size |-> sz, enc |-> n]

NoInput ==
    MkInput("none", "decode", "none", MkStream(<< >>, Zero64), Zero64,
            NoBytes, << >>, 0, 0)

----------------------------------------------------------------------------
(* The schema compiler.                                                    *)
(*                                                                         *)
(* A string of the JSON document that holds a name is the sequence of its  *)
(* dot-separated parts: "a.b.C" is <<"a", "b", "C">>, a namespace likewise *)
(* and the empty namespace is << >>.  A NodePtr is an index in the heap;   *)
(* the null pointer is 0.                                                  *)

\* json::Entity: strings, arrays and objects of a schema
JString(name) == [t |-> "string", s |-> name]

JArray(elems) == [t |-> "array", of |-> elems]

JNamed(ty, name, hasNs, ns, fields, size) ==
    [t |-> "object", type |-> <<ty>>, name |-> name, hasNamespace |-> hasNs,
     namespace |-> ns, fields |-> fields, size |-> size]

JArrayType(items) == [t |-> "object", type |-> <<"array">>, items |-> items]

JMapType(values) == [t |-> "object", type |-> <<"map">>, values |-> values]

JOther(ty) == [t |-> "object", type |-> <<ty>>]

JField(name, type, hasDefault, default) ==
    [name |-> name, type |-> type, hasDefault |-> hasDefault,
     default |-> default]

\* json::Entity: the values of a default
JNull == [j |-> "null"]

JLong(v) == [j |-> "long", v |-> v]

JText(v) == [j |-> "string", v |-> v]

JObject(keys, vals) == [j |-> "object", keys |-> keys, vals |-> vals]

JList(elems) == [j |-> "array", elems |-> elems]

\* Name: the namespace and the simple name
NameOfFull(name) ==
    [ns |-> SubSeq(name, 1, Len(name) - 1), simple |-> name[Len(name)]]

NameOf(name, ns) == [ns |-> ns, simple |-> name[1]]

NoName == [ns |-> << >>, simple |-> ""]

\* the nodes of the schema graph
MkNode(ty, nm, lv, ln, dv, lk) ==
    [type |-> ty, name |-> nm, leaves |-> lv, leafNames |-> ln,
     defaults |-> dv, link |-> lk, logicalType |-> "NONE"]

\* new NodeRecord(): no name, no fields
EmptyRecord == MkNode("record", NoName, << >>, << >>, << >>, 0)

\* the state of a compilation: the nodes, the symbol table, and a record
\* of what happened: the writes to the symbol table (with whether the name
\* was already there), the definition each write was made for (decls, the
\* same index), the type names looked up (syms: the symbolic node made, 0
\* if the name was unknown, the record whose field was being compiled and
\* the number of writes made before), the defaults materialized (mats: the
\* node the type of the field resolved to, the JSON value, the outcome and
\* the records then open) and the records whose fields are being
\* compiled, innermost last
EmptyCompilation ==
    [heap |-> << >>, st |-> << >>, writes |-> << >>, decls |-> << >>,
     syms |-> << >>, mats |-> << >>, open |-> << >>]

New(cs, node) == [cs EXCEPT !.heap = Append(@, node)]

Newest(cs) == Len(cs.heap)

\* st[nm] = p
Register(cs, nm, p) ==
    [cs EXCEPT !.st = (nm :> p) @@ @,
               !.writes = Append(@, [name |-> nm, node |-> p,
                                     existed |-> nm \in DOMAIN cs.st])]

NoOwner == [node |-> 0, name |-> NoName, fields |-> << >>]

Owner(cs) == IF cs.open = << >> THEN NoOwner ELSE cs.open[Len(cs.open)]

\* the nodes of the records whose fields are being compiled
Scopes(cs) == {cs.open[j].node : j \in 1 .. Len(cs.open)}

\* the named type e is defined, in the fields of the innermost open record
Declare(cs, e) ==
    [cs EXCEPT !.decls =
        Append(@, [name |-> e.name, hasNamespace |-> e.hasNamespace,
                   namespace |-> e.namespace, owner |-> Owner(cs)])]

Made(p, cs) == [exc |-> NoError, node |-> p, cs |-> cs, unknown |-> NoName]

Failed(e, cs) == [exc |-> e, node |-> 0, cs |-> cs, unknown |-> NoName]

UnknownType == "Unknown type"

UnknownTypeDefinition == "Unknown type definition"

FixedNotPositive == "Size for fixed is not positive"

UnexpectedDefault == "Unexpected type for default value"

NoValueInDefault == "No value found in default"

Primitives ==
    {"null", "boolean", "int", "long", "float", "double", "string", "bytes"}

\* makePrimitive: the type of the primitive node, "" for a null pointer
makePrimitive(t) ==
    IF Len(t) = 1 /\ t[1] \in Primitives THEN t[1] ELSE ""

isFullName(s) == Len(s) > 1

getName(name, ns) ==
    IF isFullName(name) THEN NameOfFull(name) ELSE NameOf(name, ns)

\* makeNode(const string &t, SymbolTable &st, const string &ns)
makeNode_string(t, cs, ns) ==
    IF makePrimitive(t) # ""
    THEN Made(Newest(cs) + 1,
              New(cs, MkNode(makePrimitive(t), NoName, << >>, << >>, << >>, 0)))
    ELSE LET Looked(nn, p, lk) ==
                 [node |-> p, name |-> nn, link |-> lk, owner |-> Owner(cs),
                  ref |-> t, at |-> Len(cs.writes), scopes |-> Scopes(cs)]
             Symbolic(nn, made) ==
                 Made(Newest(made),
                      [made EXCEPT !.syms =
                          Append(@, Looked(nn, Newest(made), cs.st[nn]))])
             Named(nn) ==
                 IF nn \in DOMAIN cs.st
                 THEN Symbolic(nn, New(cs, MkNode("symbolic", nn, << >>,
                                                  << >>, << >>, cs.st[nn])))
                 ELSE [Failed(UnknownType,
                              [cs EXCEPT !.syms =
                                  Append(@, Looked(nn, 0, 0))])
                          EXCEPT !.unknown = nn]
         IN  Named(getName(t, ns))

\* GenericDatum
Datum(ty, v) == [d |-> ty, v |-> v]

DatumMade(dt) == [exc |-> NoError, datum |-> dt]

DatumFailed(e) == [exc |-> e, datum |-> Datum("null", 0)]

\* assertType(e, et), then the datum
Expect(e, et, dt) ==
    IF e.j # et THEN DatumFailed(UnexpectedDefault) ELSE DatumMade(dt)

KeyIndex(e, key) ==
    IF \E k \in 1 .. Len(e.keys) : e.keys[k] = key
    THEN CHOOSE k \in 1 .. Len(e.keys) : e.keys[k] = key
    ELSE 0

RECURSIVE makeGenericDatum(_, _, _)
RECURSIVE RecordDatum(_, _, _, _, _)
RECURSIVE ListDatum(_, _, _, _, _)

\* the loop of the case AVRO_RECORD: for (i = 0; i < n->leaves(); ++i)
RecordDatum(nd, e, cs, k, acc) ==
    IF k > Len(cs.heap[nd].leaves) THEN DatumMade(Datum("record", acc))
    ELSE LET Field(f) ==
                 IF f.exc # NoError THEN f
                 ELSE RecordDatum(nd, e, cs, k + 1, Append(acc, f.datum))
             Found(it) ==
                 IF it = 0 THEN DatumFailed(NoValueInDefault)
                 ELSE Field(makeGenericDatum(cs.heap[nd].leaves[k],
                                             e.vals[it], cs))
         IN  Found(KeyIndex(e, cs.heap[nd].leafNames[k]))

\* the loops of the cases AVRO_ARRAY and AVRO_MAP over the elements
ListDatum(leaf, elems, cs, k, acc) ==
    IF k > Len(elems) THEN DatumMade(Datum("list", acc))
    ELSE LET Element(f) ==
                 IF f.exc # NoError THEN f
                 ELSE ListDatum(leaf, elems, cs, k + 1, Append(acc, f.datum))
         IN  Element(makeGenericDatum(leaf, elems[k], cs))

makeGenericDatum(n0, e, cs) ==
    LET Branch(f) ==
            IF f.exc # NoError THEN f
            ELSE DatumMade(Datum("union", <<f.datum>>))
        Resolved(nd, ty) ==
            CASE ty \in {"string", "bytes", "enum", "fixed"} ->
                     Expect(e, "string", Datum(ty, e))
              [] ty \in {"int", "long"} -> Expect(e, "long", Datum(ty, e))
              [] ty \in {"float", "double"} ->
                     IF e.j = "long" THEN DatumMade(Datum(ty, e))
                     ELSE Expect(e, "double", Datum(ty, e))
              [] ty = "boolean" -> Expect(e, "bool", Datum(ty, e))
              [] ty = "null" -> Expect(e, "null", Datum(ty, 0))
              [] ty = "record" ->
                     IF e.j # "object" THEN DatumFailed(UnexpectedDefault)
                     ELSE RecordDatum(nd, e, cs, 1, << >>)
              [] ty = "array" ->
                     IF e.j # "array" THEN DatumFailed(UnexpectedDefault)
                     ELSE ListDatum(cs.heap[nd].leaves[1], e.elems, cs, 1,
                                    << >>)
              [] ty = "map" ->
                     IF e.j # "object" THEN DatumFailed(UnexpectedDefault)
                     ELSE ListDatum(cs.heap[nd].leaves[2], e.vals, cs, 1,
                                    << >>)
              [] ty = "union" ->
                     Branch(makeGenericDatum(cs.heap[nd].leaves[1], e, cs))
              [] OTHER -> DatumFailed(UnknownType)
        Resolve(nd) == Resolved(nd, cs.heap[nd].type)
    IN  Resolve(IF cs.heap[n0].type = "symbolic"
                THEN cs.st[cs.heap[n0].name] ELSE n0)

\* getName that does not look at the "namespace" field
getName_object_nofield(e, ns) ==
    IF isFullName(e.name) THEN NameOfFull(e.name) ELSE NameOf(e.name, ns)

\* getName(const Entity &e, const Object &m, const string &ns)
getName_object(e, ns) ==
    IF isFullName(e.name) THEN NameOfFull(e.name)
    ELSE IF e.hasNamespace THEN NameOf(e.name, e.namespace)
    ELSE NameOf(e.name, ns)

RECURSIVE makeNode(_, _, _)
RECURSIVE makeRecordNodeLoop(_, _, _, _, _, _, _)
RECURSIVE makeNode_arrayLoop(_, _, _, _, _)

\* makeField: the name, the node of the type and the default of a field
makeField(e, cs, ns) ==
    LET Target(c, p) ==
            IF c.heap[p].type = "symbolic" THEN c.st[c.heap[p].name] ELSE p
        Materialized(c, p, d) ==
            [c EXCEPT !.mats =
                Append(@, [target |-> Target(c, p), default |-> e.default,
                           exc |-> d.exc, datum |-> d.datum,
                           open |-> c.open])]
        WithDefault(node, d) ==
            [exc |-> d.exc,
             made |-> [node EXCEPT !.cs = Materialized(@, node.node, d)],
             datum |-> d.datum]
        Typed(node) ==
            IF node.exc # NoError
            THEN [exc |-> node.exc, made |-> node, datum |-> Datum("null", 0)]
            ELSE IF ~e.hasDefault
            THEN [exc |-> NoError, made |-> node, datum |-> Datum("null", 0)]
            ELSE WithDefault(node, makeGenericDatum(node.node, e.default,
                                                    node.cs))
    IN  Typed(makeNode(e.type, cs, ns))

\* the loop of makeRecordNode over the "fields" array
makeRecordNodeLoop(v, k, cs, ns, fieldNames, fieldValues, defaultValues) ==
    IF k > Len(v)
    THEN [exc |-> NoError, cs |-> cs, fieldNames |-> fieldNames,
          fieldValues |-> fieldValues, defaultValues |-> defaultValues,
          unknown |-> NoName]
    ELSE LET Field(f) ==
                 IF f.exc # NoError
                 THEN [exc |-> f.exc, cs |-> f.made.cs,
                       fieldNames |-> fieldNames,
                       fieldValues |-> fieldValues,
                       defaultValues |-> defaultValues,
                       unknown |-> f.made.unknown]
                 ELSE makeRecordNodeLoop(v, k + 1, f.made.cs, ns,
                                         Append(fieldNames, v[k].name),
                                         Append(fieldValues, f.made.node),
                                         Append(defaultValues, f.datum))
         IN  Field(makeField(v[k], cs, ns))

\* makeRecordNode: a new record node with the compiled fields
makeRecordNode(e, name, cs, ns) ==
    LET Fields(l) ==
            IF l.exc # NoError
            THEN [Failed(l.exc, l.cs) EXCEPT !.unknown = l.unknown]
            ELSE Made(Newest(l.cs) + 1,
                      New(l.cs, MkNode("record", name, l.fieldValues,
                                       l.fieldNames, l.defaultValues, 0)))
    IN  Fields(makeRecordNodeLoop(e.fields, 1, cs, ns, << >>, << >>, << >>))

\* NodeRecord::swap: the two nodes exchange their contents
Swap(cs, p, q) ==
    [cs EXCEPT !.heap = [@ EXCEPT ![p] = cs.heap[q], ![q] = cs.heap[p]]]

makeEnumNode(e, name, cs) ==
    Made(Newest(cs) + 1,
         New(cs, MkNode("enum", name, << >>, << >>, << >>, 0)))

makeFixedNode(e, name, cs) ==
    IF e.size <= 0 THEN Failed(FixedNotPositive, cs)
    ELSE Made(Newest(cs) + 1,
              New(cs, MkNode("fixed", name, << >>, << >>, << >>, 0)))

makeArrayNode(e, cs, ns) ==
    LET Of(it) ==
            IF it.exc # NoError THEN it
            ELSE Made(Newest(it.cs) + 1,
                      New(it.cs, MkNode("array", NoName, <<it.node>>, << >>,
                                        << >>, 0)))
    IN  Of(makeNode(e.items, cs, ns))

\* NodeMap has two leaves: the string of the keys and the values
makeMapNode(e, cs, ns) ==
    LET Keyed(it, key) ==
            Made(Newest(key) + 1,
                 New(key, MkNode("map", NoName, <<Newest(key), it.node>>,
                                 << >>, << >>, 0)))
        Of(it) ==
            IF it.exc # NoError THEN it
            ELSE Keyed(it, New(it.cs, MkNode("string", NoName, << >>, << >>,
                                             << >>, 0)))
    IN  Of(makeNode(e.values, cs, ns))

\* makeNode(const Entity &e, const Object &m, SymbolTable &st,
\* const string &ns); the document has no "logicalType", the node keeps NONE
makeNode_object(e, cs, ns) ==
    IF e.type[1] \in {"record", "error", "enum", "fixed"}
    THEN LET Swapped(result, r) ==
                 IF r.exc # NoError THEN r
                 ELSE Made(result,
                           [Swap(r.cs, r.node, result)
                               EXCEPT !.open = cs.open])
             Inside(nm, result, reg) ==
                 [reg EXCEPT !.open =
                     Append(@, [node |-> result, name |-> nm,
                                fields |-> [k \in 1 .. Len(e.fields) |->
                                               e.fields[k].name]])]
             Record(nm, result) ==
                 Swapped(result,
                         makeRecordNode(e, nm,
                             Inside(nm, result,
                                    Register(New(Declare(cs, e),
                                                 EmptyRecord), nm, result)),
                             nm.ns))
             Registered(nm, r) ==
                 IF r.exc # NoError THEN r
                 ELSE Made(r.node, Register(Declare(r.cs, e), nm, r.node))
             Named(nm) ==
                 IF e.type[1] \in {"record", "error"}
                 THEN Record(nm, Newest(cs) + 1)
                 ELSE Registered(nm, IF e.type[1] = "enum"
                                     THEN makeEnumNode(e, nm, cs)
                                     ELSE makeFixedNode(e, nm, cs))
         IN  Named(getName_object(e, ns))
    ELSE IF e.type[1] = "array" THEN makeArrayNode(e, cs, ns)
    ELSE IF e.type[1] = "map" THEN makeMapNode(e, cs, ns)
    ELSE IF makePrimitive(e.type) # ""
    THEN Made(Newest(cs) + 1,
              New(cs, MkNode(makePrimitive(e.type), NoName, << >>, << >>,
                             << >>, 0)))
    ELSE Failed(UnknownTypeDefinition, cs)

\* the loop of makeNode(const Entity &e, const Array &m, ...)
makeNode_arrayLoop(m, k, cs, ns, mm) ==
    IF k > Len(m)
    THEN Made(Newest(cs) + 1,
              New(cs, MkNode("union", NoName, mm, << >>, << >>, 0)))
    ELSE LET Branch(b) ==
                 IF b.exc # NoError THEN b
                 ELSE makeNode_arrayLoop(m, k + 1, b.cs, ns,
                                         Append(mm, b.node))
         IN  Branch(makeNode(m[k], cs, ns))

makeNode_array(e, cs, ns) == makeNode_arrayLoop(e.of, 1, cs, ns, << >>)

\* makeNode(const json::Entity &e, SymbolTable &st, const string &ns)
makeNode(e, cs, ns) ==
    CASE e.t = "string" -> makeNode_string(e.s, cs, ns)
      [] e.t = "object" -> makeNode_object(e, cs, ns)
      [] e.t = "array" -> makeNode_array(e, cs, ns)

\* compileJsonSchemaFromStream, on the DOM of the document
compileJsonSchemaFromStream(e) == makeNode(e, EmptyCompilation, << >>)

\* The schema documents compiled: a record A, in the empty namespace or in
\* the namespace a, of one or two fields.  The type of a field is a type
\* name, an array, a map or a union of one, or the definition of a named
\* type, which may take the name of the record again.
TopNames ==
    {[name |-> <<"A">>, hasNamespace |-> FALSE, namespace |-> << >>],
     [name |-> <<"A">>, hasNamespace |-> TRUE, namespace |-> <<"a">>],
     [name |-> <<"A">>, hasNamespace |-> TRUE, namespace |-> <<"a", "b">>],
     [name |-> <<"a", "A">>, hasNamespace |-> FALSE, namespace |-> << >>]}

NestedNames ==
    {[name |-> <<"A">>, hasNamespace |-> FALSE, namespace |-> << >>],
     [name |-> <<"B">>, hasNamespace |-> FALSE, namespace |-> << >>],
     [name |-> <<"a", "A">>, hasNamespace |-> FALSE, namespace |-> << >>],
     [name |-> <<"B">>, hasNamespace |-> TRUE, namespace |-> <<"b">>]}

TypeNames == {<<"int">>, <<"A">>, <<"a", "A">>, <<"B">>}

Wrapped(e) ==
    {e, JArrayType(e), JMapType(e), JArray(<<JString(<<"null">>), e>>)}

NestedTypes ==
    {JNamed("record", nn.name, nn.hasNamespace, nn.namespace,
            <<JField("g", JString(tn), FALSE, JNull)>>, 0) :
        nn \in NestedNames, tn \in {<<"int">>, <<"A">>, <<"B">>}}
    \cup {JNamed("enum", nn.name, nn.hasNamespace, nn.namespace, << >>, 0) :
              nn \in NestedNames}
    \cup {JNamed("fixed", nn.name, nn.hasNamespace, nn.namespace, << >>, 1) :
              nn \in NestedNames}
    \cup {JNamed("error", <<"B">>, FALSE, << >>,
                 <<JField("g", JString(<<"int">>), FALSE, JNull)>>, 0),
          JNamed("fixed", <<"B">>, FALSE, << >>, << >>, 0),
          JOther("int"), JOther("list")}

FieldTypes ==
    UNION {Wrapped(JString(tn)) : tn \in TypeNames} \cup NestedTypes

Defaults ==
    {JLong(1), JObject(<< >>, << >>), JObject(<<"g">>, <<JLong(1)>>)}

LastFields ==
    {JField("f2", ty, FALSE, JNull) : ty \in FieldTypes}
    \cup {JField("f2", ty, TRUE, d) : ty \in FieldTypes, d \in Defaults}

FieldLists ==
    {<<f>> : f \in LastFields}
    \cup {<<JField("f1", ty, FALSE, JNull), f>> :
              ty \in FieldTypes, f \in LastFields}

Documents ==
    {JNamed("record", tn.name, tn.hasNamespace, tn.namespace, fs, 0) :
        tn \in TopNames, fs \in FieldLists}
    \cup FieldTypes

----------------------------------------------------------------------------
(* The decoder and its caller *)

VARIABLES
    in_,        \* BinaryDecoder::in_, the stream reader
    input,      \* what the caller reads and what the stream was written from
    pc,         \* where the caller is: unbound, start, items, next, done, failed
    n,          \* the item count the caller was handed for the current block
    i,          \* the items of the current block the caller has read
    got,        \* the items the caller has decoded
    last,       \* the last call of the decoder and its outcome
    document,   \* the DOM of the schema document given to the compiler
    compiled,   \* the compilation: the nodes, the symbol table, what happened
    schema,     \* the root node of the ValidSchema handed back, 0 if none
    error,      \* the message of the exception the compiler threw
    cpc         \* where the compiler's caller is: idle, compiled, thrown, false

decoderVars == <<in_, input, pc, n, i, got, last>>

compilerVars == <<document, compiled, schema, error, cpc>>

vars == <<decoderVars, compilerVars>>

Offset(in) == [next |-> in.next, pad |-> in.pad]

NoCall ==
    [op |-> "none", from |-> Offset(NoInput.stream),
     to |-> Offset(NoInput.stream), exc |-> NoError, val |-> Zero64,
     bytes |-> NoBytes, shifts |-> << >>]

Init ==
    /\ in_ = NoInput.stream
    /\ input = NoInput
    /\ pc = "unbound"
    /\ n = Zero64
    /\ i = 0
    /\ got = << >>
    /\ last = NoCall
    /\ document = JOther("none")
    /\ compiled = EmptyCompilation
    /\ schema = 0
    /\ error = <<NoError, NoName>>
    /\ cpc = "idle"

\* BinaryDecoder::init: bind the stream
Bind(inp) ==
    /\ in_' = inp.stream
    /\ input' = inp
    /\ pc' = "start"
    /\ UNCHANGED <<n, i, got, last>>
    /\ UNCHANGED compilerVars

init ==
    /\ pc = "unbound"
    /\ \/ \E sch \in {"long", "int", "enum", "union"}, x \in TestLongs,
             t \in Trailers :
             Bind(MkInput(sch, "decode", "long",
                          MkStream(encodeLong(x) \o t, Zero64), x, NoBytes,
                          << >>, 0, Len(encodeLong(x))))
       \/ \E sch \in {"long", "int", "enum", "union"}, b \in RawStreams :
             Bind(MkInput(sch, "decode", "raw", MkStream(b, Zero64), Zero64,
                          NoBytes, << >>, 0, 0))
       \/ \E sch \in {"string", "bytes"}, md \in {"decode", "skip"},
             b \in SeqsUpTo(StrBytes, MaxStrLen), t \in Trailers :
             Bind(MkInput(sch, md, "bytes",
                          MkStream(encodeBytes(b) \o t, Zero64),
                          NatToWord(Len(b)), [data |-> b, padding |-> Zero64],
                          << >>, 0, Len(encodeBytes(b))))
       \/ \E sch \in {"string", "bytes"}, md \in {"decode", "skip"},
             x \in BigLengths :
             Bind(MkInput(sch, md, "bytes", MkStream(encodeLong(x), x), x,
                          [data |-> << >>, padding |-> x], << >>, 0,
                          Len(encodeLong(x))))
       \/ \E sch \in {"string", "bytes"}, md \in {"decode", "skip"},
             x \in NegativeLengths, t \in Trailers :
             Bind(MkInput(sch, md, "negative",
                          MkStream(encodeLong(x) \o t, Zero64), x, NoBytes,
                          << >>, 0, Len(encodeLong(x))))
       \/ \E md \in {"decode", "skip"}, b \in SeqsUpTo(StrBytes, MaxFixed),
             t \in Trailers :
             Bind(MkInput("fixed", md, "fixed", MkStream(b \o t, Zero64),
                          Zero64, [data |-> b, padding |-> Zero64], << >>,
                          Len(b), Len(b)))
       \/ \E sch \in {"array", "map"}, md \in {"decode", "skip"},
             t \in Trailers :
             \E bs \in Containers(sch) :
                 Bind(MkInput(sch, md, "container",
                              MkStream(encodeContainer(sch, bs) \o t, Zero64),
                              Zero64, NoBytes, bs, 0,
                              Len(encodeContainer(sch, bs))))

\* the decoder call op made on in_ had the outcome r
Called(op, r) ==
    /\ UNCHANGED compilerVars
    /\ in_' = r.in
    /\ last' = [op |-> op, from |-> Offset(in_), to |-> Offset(r.in),
                exc |-> r.exc, val |-> r.val, bytes |-> r.bytes,
                shifts |-> r.shifts]

After(r, then) == IF r.exc = NoError THEN then ELSE "failed"

\* a caller reading one value with one call
Single(sch, md, op, r) ==
    /\ pc = "start"
    /\ input.schema = sch
    /\ input.mode = md
    /\ Called(op, r)
    /\ pc' = After(r, "done")
    /\ UNCHANGED <<input, n, i, got>>

Call_decodeLong == Single("long", "decode", "decodeLong", decodeLong(in_))

Call_decodeInt == Single("int", "decode", "decodeInt", decodeInt(in_))

Call_decodeEnum == Single("enum", "decode", "decodeEnum", decodeEnum(in_))

Call_decodeUnionIndex ==
    Single("union", "decode", "decodeUnionIndex", decodeUnionIndex(in_))

Call_decodeString ==
    Single("string", "decode", "decodeString", decodeString(in_))

Call_skipString == Single("string", "skip", "skipString", skipString(in_))

Call_decodeBytes == Single("bytes", "decode", "decodeBytes", decodeBytes(in_))

Call_skipBytes == Single("bytes", "skip", "skipBytes", skipBytes(in_))

Call_decodeFixed ==
    Single("fixed", "decode", "decodeFixed",
           decodeFixed(NatToWord(input.size), in_))

Call_skipFixed ==
    Single("fixed", "skip", "skipFixed", skipFixed(NatToWord(input.size), in_))

\* a caller opening a block: it is handed the number of items to read
Open(sch, md, at, op, r) ==
    /\ pc \in at
    /\ input.schema = sch
    /\ input.mode = md
    /\ Called(op, r)
    /\ n' = r.val
    /\ i' = 0
    /\ pc' = After(r, IF r.val = Zero64 THEN "done" ELSE "items")
    /\ UNCHANGED <<input, got>>

Call_arrayStart ==
    Open("array", "decode", {"start"}, "arrayStart", arrayStart(in_))

Call_arrayNext ==
    Open("array", "decode", {"next"}, "arrayNext", arrayNext(in_))

Call_mapStart == Open("map", "decode", {"start"}, "mapStart", mapStart(in_))

Call_mapNext == Open("map", "decode", {"next"}, "mapNext", mapNext(in_))

Call_skipArray ==
    Open("array", "skip", {"start", "next"}, "skipArray", skipArray(in_))

Call_skipMap ==
    Open("map", "skip", {"start", "next"}, "skipMap", skipMap(in_))

\* the caller's loop over the n items of the block: for (i = 0; i < n; ++i)
Counted(r) ==
    /\ i' = i + 1
    /\ pc' = After(r, IF NatToWord(i + 1) = n THEN "next" ELSE "items")
    /\ UNCHANGED <<input, n>>

\* an array item is a long; skipping a long is decoding it
ReadArrayItem ==
    /\ pc = "items"
    /\ input.schema = "array"
    /\ LET r == decodeLong(in_)
       IN  /\ Called("decodeLong", r)
           /\ Counted(r)
           /\ got' = IF r.exc = NoError /\ input.mode = "decode"
                     THEN Append(got, [key |-> << >>, val |-> r.val])
                     ELSE got

\* a map entry is a string key and a long
KeyRead ==
    IF input.mode = "decode" THEN decodeString(in_) ELSE skipString(in_)

EntryRead(k) == IF k.exc # NoError THEN k ELSE decodeLong(k.in)

EntryDone(k, r) ==
    /\ Called("mapEntry", r)
    /\ Counted(r)
    /\ got' = IF r.exc = NoError /\ input.mode = "decode"
              THEN Append(got, [key |-> k.bytes.data, val |-> r.val])
              ELSE got

ReadMapEntry ==
    /\ pc = "items"
    /\ input.schema = "map"
    /\ EntryDone(KeyRead, EntryRead(KeyRead))

Next ==
    \/ init
    \/ Call_decodeLong
    \/ Call_decodeInt
    \/ Call_decodeEnum
    \/ Call_decodeUnionIndex
    \/ Call_decodeString
    \/ Call_skipString
    \/ Call_decodeBytes
    \/ Call_skipBytes
    \/ Call_decodeFixed
    \/ Call_skipFixed
    \/ Call_arrayStart
    \/ Call_arrayNext
    \/ Call_mapStart
    \/ Call_mapNext
    \/ Call_skipArray
    \/ Call_skipMap
    \/ ReadArrayItem
    \/ ReadMapEntry

Spec == Init /\ [][Next]_vars

\* the compiler: makeNode on the document in the empty namespace; the
\* exception of a failure reaches the caller
Compile(e, caught) ==
    /\ LET Done(r) ==
               /\ document' = e
               /\ compiled' = r.cs
               /\ schema' = r.node
               /\ error' = IF r.exc = UnknownType THEN <<r.exc, r.unknown>>
                           ELSE <<r.exc, NoName>>
               /\ cpc' = IF r.exc = NoError THEN "compiled" ELSE caught
       IN  Done(compileJsonSchemaFromStream(e))
    /\ UNCHANGED decoderVars

Call_compileJsonSchemaFromStream ==
    /\ cpc = "idle"
    /\ \E e \in Documents : Compile(e, "thrown")

\* compileJsonSchema(is, schema, error): false and the message on a failure
Call_compileJsonSchema ==
    /\ cpc = "idle"
    /\ \E e \in Documents : Compile(e, "false")

NextCompiler ==
    \/ Call_compileJsonSchemaFromStream
    \/ Call_compileJsonSchema

SpecCompiler == Init /\ [][NextCompiler]_vars

----------------------------------------------------------------------------
(* Properties of the decoder *)

\* the offset at which the value the stream was written from ends
EndOfValue == [next |-> input.enc + 1, pad |-> Zero64]

\* x is in the range of int32_t: the bits from 31 on are all the sign
InInt32(x) == \A k \in 31 .. (WordBits - 1) : x[k] = x[31]

\* C1: decodeLong of the encoding of a long x returns x, decodeInt of the
\* encoding of an x in the int32_t range returns x, and both consume
\* exactly the bytes of the encoding
C1_VarintRoundTrip ==
    (/\ input.kind = "long"
     /\ \/ last.op = "decodeLong"
        \/ last.op = "decodeInt" /\ InInt32(input.x))
    => /\ last.exc = NoError
       /\ last.val = input.x
       /\ last.from = Offset(input.stream)
       /\ last.to = EndOfValue

C1_Witness ==
    /\ input.kind = "long"
    /\ last.op = "decodeLong"
    /\ input.x = NegPowMinusOneWord(62)
    /\ input.enc = 10
    /\ last.val = input.x
    /\ Len(input.stream.buf) > input.enc

\* the byte k of the stream, counted from where the last call started
ByteFrom(k) == input.stream.buf[last.from.next + k - 1]

BytesFrom == Len(input.stream.buf) - last.from.next + 1

\* the first k bytes the last call met all have the continuation bit
AllContinue(k) == BytesFrom >= k /\ \A j \in 1 .. k : ByteFrom(j) >= 128

\* C2: doDecodeLong reads at most 10 bytes, applies the shifts 0, 7, ..., 63
\* in this order, throws the invalid varint error exactly when the first 10
\* bytes all have the continuation bit, and otherwise returns right after
\* the first byte without it
C2_VarintBounded ==
    (last.op = "decodeLong")
    => /\ Len(last.shifts) <= 10
       /\ last.to.next - last.from.next = Len(last.shifts)
       /\ \A k \in 1 .. Len(last.shifts) :
              last.shifts[k] = 7 * (k - 1) /\ last.shifts[k] <= 63
       /\ (last.exc = InvalidVarint) <=> AllContinue(10)
       /\ \A k \in 1 .. 10 :
              (k <= BytesFrom /\ ByteFrom(k) < 128 /\ AllContinue(k - 1))
              => /\ last.exc = NoError
                 /\ last.to.next = last.from.next + k

C2_Witness ==
    /\ last.op = "decodeLong"
    /\ last.exc = InvalidVarint
    /\ Len(input.stream.buf) > 10
    /\ last.to.next = 11

\* C8: decodeEnum and decodeUnionIndex return the long read from the
\* stream, and that long is not negative
C8_IndexNonNegative ==
    (/\ input.kind = "long"
     /\ last.op \in {"decodeEnum", "decodeUnionIndex"}
     /\ last.exc = NoError)
    => /\ last.val = input.x
       /\ ~IsNegative(input.x)

\* the index in the stream of the header of block k of the container; the
\* block after the last one is the terminating 0
BlockStart(k) ==
    1 + Len(Concat([j \in 1 .. (k - 1) |->
                       encodeBlock(input.schema, input.blocks[j])]))

BlockCount(k) ==
    IF k <= Len(input.blocks) THEN NatToWord(Len(input.blocks[k].items))
    ELSE Zero64

HeaderIdx == 1 .. (Len(input.blocks) + 1)

\* C3: arrayStart, arrayNext, mapStart and mapNext, called at the header of
\* a block, return the number of items of the block, and 0 at the
\* terminating header
C3_ItemCount ==
    (/\ input.kind = "container"
     /\ last.op \in {"arrayStart", "arrayNext", "mapStart", "mapNext"})
    => \A k \in HeaderIdx :
           (last.from.next = BlockStart(k))
           => /\ last.exc = NoError
              /\ last.val = BlockCount(k)

AllItems == Concat([k \in 1 .. Len(input.blocks) |-> input.blocks[k].items])

IsPrefix(s, t) == Len(s) <= Len(t) /\ s = SubSeq(t, 1, Len(s))

\* C4: the caller reading a container of one block with arrayStart or
\* mapStart, the items, then arrayNext or mapNext until 0, never fails,
\* reads the items the block was written from and stops at the end of the
\* container, whether the block has a positive count or a negative count
\* and a byte size
C4_FramingEquivalence ==
    (/\ input.kind = "container"
     /\ input.mode = "decode"
     /\ Len(input.blocks) <= 1)
    => /\ pc # "failed"
       /\ IsPrefix(got, AllItems)
       /\ (pc = "done") => (got = AllItems /\ Offset(in_) = EndOfValue)

C4_Witness ==
    /\ input.kind = "container"
    /\ input.mode = "decode"
    /\ Len(input.blocks) = 1
    /\ input.blocks[1].neg
    /\ Len(input.blocks[1].items) = 2
    /\ pc = "done"
    /\ last.op \in {"arrayNext", "mapNext"}
    /\ Len(input.stream.buf) > input.enc

\* C5: skipping a valid string, bytes, fixed, array or map and decoding it
\* both succeed and leave the stream at the end of the value
C5_SkipEquivalence ==
    (/\ input.kind \in {"bytes", "fixed", "container"}
     /\ input.stream.pad = Zero64)
    => /\ pc # "failed"
       /\ (pc = "done") => (Offset(in_) = EndOfValue)

\* C6: one call of skipArray or skipMap at the head of a valid container
\* consumes the container up to and including the terminating 0 and
\* returns 0
C6_SkipDrainsAll ==
    (/\ input.kind = "container"
     /\ last.op \in {"skipArray", "skipMap"}
     /\ last.from = Offset(input.stream))
    => /\ last.exc = NoError
       /\ last.val = Zero64
       /\ last.to = EndOfValue

\* the first block from k on that has no byte size, the terminating 0 if
\* there is none
RECURSIVE FirstPositive(_)
FirstPositive(k) ==
    IF k > Len(input.blocks) \/ ~input.blocks[k].neg THEN k
    ELSE FirstPositive(k + 1)

\* C6 amended: a call of skipArray or skipMap at a block header consumes
\* the blocks with a byte size whole, and stops after the first header
\* that is not negative: it returns the count of that block, leaving its
\* items to the caller, or 0 after the terminating header
C6_SkipStopsAtPositive ==
    (/\ input.kind = "container"
     /\ last.op \in {"skipArray", "skipMap"})
    => \A k \in HeaderIdx :
           (last.from.next = BlockStart(k))
           => /\ last.exc = NoError
              /\ last.val = BlockCount(FirstPositive(k))
              /\ last.to.next =
                     BlockStart(FirstPositive(k))
                       + Len(encodeLong(BlockCount(FirstPositive(k))))
              /\ (last.val = Zero64) <=> (last.to = EndOfValue)

C6_Witness ==
    /\ input.kind = "container"
    /\ last.op = "skipArray"
    /\ last.from = Offset(input.stream)
    /\ Len(input.blocks) = 2
    /\ input.blocks[1].neg
    /\ ~input.blocks[2].neg
    /\ Len(input.blocks[2].items) = 2
    /\ last.val = NatToWord(2)

\* C7: decodeString and decodeBytes on the varint of a length n >= 0 and n
\* bytes return these bytes and consume the varint and the bytes; on a
\* negative length they throw the negative length error having read the
\* varint only
C7_AnyLength ==
    (last.op \in {"decodeString", "decodeBytes"})
    => /\ (input.kind = "bytes")
          => /\ last.exc = NoError
             /\ last.bytes = input.payload
             /\ last.to = EndOfValue
       /\ (input.kind = "negative")
          => /\ last.exc = NegativeLength
             /\ last.to = EndOfValue

\* the long in the header of block k: the count, negated if the block
\* has a byte size; 0 in the terminating header
HeaderLong(k) ==
    IF k <= Len(input.blocks) /\ input.blocks[k].neg
    THEN NegWord(BlockCount(k))
    ELSE BlockCount(k)

\* the bytes of the header of block k that hold its byte size
SizeLen(k) ==
    IF k <= Len(input.blocks) /\ input.blocks[k].neg
    THEN Len(encodeLong(NatToWord(
             Len(encodeItems(input.schema, input.blocks[k].items)))))
    ELSE 0

\* the last call, made at the header of block k, read the long of the
\* header only and returned it as it is
Raw(k) ==
    /\ last.exc = NoError
    /\ last.val = HeaderLong(k)
    /\ last.to.next = last.from.next + Len(encodeLong(HeaderLong(k)))

\* the last call, made at the header of block k, read the long of the
\* header and the byte size, if there is one, and returned the count
Framed(k) ==
    /\ last.exc = NoError
    /\ last.val = BlockCount(k)
    /\ last.to.next =
           last.from.next + Len(encodeLong(HeaderLong(k))) + SizeLen(k)

\* C12: arrayNext and mapNext return the long of the block header as it
\* is, read this one varint only and leave the byte size after a negative
\* header unread; arrayStart and mapStart interpret the framing
C12_NextIsRaw ==
    (input.kind = "container")
    => \A k \in HeaderIdx :
           (last.from.next = BlockStart(k))
           => /\ (last.op \in {"arrayNext", "mapNext"}) => Raw(k)
              /\ (last.op \in {"arrayStart", "mapStart"}) => Framed(k)

\* C12 amended: arrayNext alone returns the long of the block header as
\* it is, reads this one varint only and leaves the byte size after a
\* negative header unread; mapNext, as arrayStart and mapStart, reads the
\* byte size after a negative header too and returns the count
C12_OnlyArrayNextIsRaw ==
    (input.kind = "container")
    => \A k \in HeaderIdx :
           (last.from.next = BlockStart(k))
           => /\ (last.op = "arrayNext") => Raw(k)
              /\ (last.op \in {"arrayStart", "mapStart", "mapNext"})
                 => Framed(k)

C12_Witness ==
    /\ input.kind = "container"
    /\ last.op = "arrayNext"
    /\ Len(input.blocks) = 2
    /\ input.blocks[2].neg
    /\ Len(input.blocks[2].items) = 2
    /\ last.from.next = BlockStart(2)
    /\ IsNegative(last.val)
    /\ last.to.next = last.from.next + 1

----------------------------------------------------------------------------
(* Properties of the schema compiler *)

Failing == cpc \in {"thrown", "false"}

\* the symbolic node s was made for a field of a record of the same name
SelfReference(s) == s.name = s.owner.name

\* C9: a field type that names the record being compiled never fails as an
\* unknown type, and after the compilation the symbolic node made for it
\* links to the node returned for the record, which has the name and all
\* the fields of the record
C9_SelfReference ==
    /\ (Failing /\ error[1] = UnknownType)
       => (error[2] # Owner(compiled).name)
    /\ (cpc = "compiled")
       => \A k \in 1 .. Len(compiled.syms) :
              LET s == compiled.syms[k]
              IN  SelfReference(s)
                  => /\ s.link = s.owner.node
                     /\ compiled.heap[s.link].type = "record"
                     /\ compiled.heap[s.link].name = s.name
                     /\ compiled.heap[s.link].leafNames = s.owner.fields

\* no definition of the document took a name that was already defined
NoRedefinition ==
    \A k \in 1 .. Len(compiled.writes) : ~compiled.writes[k].existed

\* C9 on the documents that define no name twice
SelfReferenceIfNoRedefinition == NoRedefinition => C9_SelfReference

\* C10: a document with two definitions of the same name fails to compile,
\* and no entry of the symbol table is overwritten
C10_DuplicateRejected ==
    /\ NoRedefinition
    /\ (cpc = "compiled")
       => \A k, l \in 1 .. Len(compiled.writes) :
              (compiled.writes[k].name = compiled.writes[l].name) => (k = l)

\* the name of the definition d by the rule: the part of the name before
\* the last dot, else the "namespace" field, else the namespace of the
\* record in whose fields the definition stands
DeclaredName(d) ==
    IF Len(d.name) > 1
    THEN [ns |-> SubSeq(d.name, 1, Len(d.name) - 1),
          simple |-> d.name[Len(d.name)]]
    ELSE IF d.hasNamespace THEN [ns |-> d.namespace, simple |-> d.name[1]]
    ELSE [ns |-> d.owner.name.ns, simple |-> d.name[1]]

NamesByRule ==
    /\ Len(compiled.decls) = Len(compiled.writes)
    /\ \A k \in 1 .. Len(compiled.writes) :
           compiled.writes[k].name = DeclaredName(compiled.decls[k])

\* the name a type name s.ref stands for in the fields of the record
\* s.owner: itself if it has a dot, else in the namespace of the record
ReferredName(s) ==
    IF Len(s.ref) > 1
    THEN [ns |-> SubSeq(s.ref, 1, Len(s.ref) - 1),
          simple |-> s.ref[Len(s.ref)]]
    ELSE [ns |-> s.owner.name.ns, simple |-> s.ref[1]]

\* the writes to the symbol table made for the name nm before the lookup s
WritesBefore(s, nm) ==
    {k \in 1 .. s.at : compiled.writes[k].name = nm}

Latest(ks) == CHOOSE k \in ks : \A j \in ks : j <= k

\* every type name looked up stands for the name of the rule; it resolves
\* to the node registered last under this very name if there is one, and
\* fails as an unknown type if there is none
LookupsByRule ==
    \A k \in 1 .. Len(compiled.syms) :
        LET s == compiled.syms[k]
        IN  /\ s.name = ReferredName(s)
            /\ (s.node # 0) <=> (WritesBefore(s, s.name) # {})
            /\ (s.node # 0)
               => /\ s.link =
                         compiled.writes[Latest(WritesBefore(s, s.name))].node
                  /\ compiled.heap[s.node].type = "symbolic"
                  /\ compiled.heap[s.node].link = s.link
                  /\ (cpc = "compiled")
                     => (compiled.heap[s.link].name = s.name)
            /\ (s.node = 0)
               => /\ k = Len(compiled.syms)
                  /\ Failing
                  /\ error = <<UnknownType, s.name>>

\* the definitions of the simple name of s.ref made before the lookup s in
\* the same or an enclosing scope: in the fields of a record whose fields
\* are being compiled, or outside of any record
DefinedInScope(s) ==
    {k \in 1 .. s.at :
        /\ compiled.decls[k].name[Len(compiled.decls[k].name)] = s.ref[1]
        /\ compiled.decls[k].owner.node \in s.scopes \cup {0}}

\* C11: a named type has the name of the rule, the types in the fields of
\* a record are compiled in the namespace of the record, a simple name
\* resolves in this namespace whenever a type of this simple name was
\* defined before in the same or an enclosing scope, and a simple name
\* that matches no registered type of the namespace fails as unknown
C11_NamespaceInheritance ==
    /\ NamesByRule
    /\ LookupsByRule
    /\ \A k \in 1 .. Len(compiled.syms) :
           (/\ Len(compiled.syms[k].ref) = 1
            /\ DefinedInScope(compiled.syms[k]) # {})
           => (compiled.syms[k].node # 0)

\* C11 amended: a named type has the name of the rule, the types in the
\* fields of a record are compiled in the namespace of the record, and a
\* simple name resolves, to the type registered last under the full name
\* it has in this namespace, exactly when such a type was registered
\* before; it fails as unknown otherwise, whatever was defined under this
\* simple name in another namespace
C11_ResolvesFullName == NamesByRule /\ LookupsByRule

C11_Witness ==
    /\ cpc = "compiled"
    /\ document.t = "object"
    /\ document.type = <<"record">>
    /\ document.namespace = <<"a", "b">>
    /\ \E k \in 1 .. Len(compiled.syms) :
           /\ compiled.syms[k].ref = <<"B">>
           /\ compiled.syms[k].name = [ns |-> <<"a", "b">>, simple |-> "B"]
           /\ compiled.syms[k].owner.name = [ns |-> <<"a", "b">>, simple |-> "A"]
           /\ compiled.syms[k].node # 0

\* the fields the record of the materialization m declares: those of its
\* definition if its fields were still being compiled, else those of its
\* node
DeclaredFields(m) ==
    IF \E j \in 1 .. Len(m.open) : m.open[j].node = m.target
    THEN m.open[CHOOSE j \in 1 .. Len(m.open) :
                    m.open[j].node = m.target].fields
    ELSE compiled.heap[m.target].leafNames

\* the JSON object of the materialization m has a key for every field of
\* the sequence
AllKeys(m, fields) ==
    \A k \in 1 .. Len(fields) :
        \E j \in 1 .. Len(m.default.keys) : m.default.keys[j] = fields[k]

\* the materialization m of a JSON object against a record fails as a
\* missing default if a declared field has no key, and else gives a
\* record datum of one value per declared field, unless a value fails
Complete(m) ==
    /\ ~AllKeys(m, DeclaredFields(m)) => (m.exc = NoValueInDefault)
    /\ (m.exc = NoError)
       => /\ m.datum.d = "record"
          /\ Len(m.datum.v) = Len(DeclaredFields(m))
    /\ (m.exc # NoError) => (Failing /\ error[1] = m.exc)

AgainstRecord(m) ==
    /\ compiled.heap[m.target].type = "record"
    /\ m.default.j = "object"

\* C13: a default materialized against a record, reached directly or
\* through a symbolic node, fails as a missing default if the JSON object
\* lacks the key of a declared field of the record, and else the record
\* datum has one value per declared field
C13_DefaultComplete ==
    \A k \in 1 .. Len(compiled.mats) :
        AgainstRecord(compiled.mats[k]) => Complete(compiled.mats[k])

\* the record of the materialization m was complete: its fields were not
\* being compiled
Closed(m) == \A j \in 1 .. Len(m.open) : m.open[j].node # m.target

\* C13 on the defaults whose record was complete
DefaultCompleteIfClosed ==
    \A k \in 1 .. Len(compiled.mats) :
        (AgainstRecord(compiled.mats[k]) /\ Closed(compiled.mats[k]))
        => Complete(compiled.mats[k])

====
